---- MODULE Spec2Model ----
(***************************************************************************)
(* A model of crates/anthropic/src/anthropic.rs: the Model catalog         *)
(* (from_id / id), and stream_completion with the lazy event stream it     *)
(* returns.                                                                *)
(*                                                                         *)
(* Strings are sequences of one-character strings, so that starts_with and *)
(* strip_prefix are computed on the text.                                  *)
(***************************************************************************)
EXTENDS Integers, Sequences, FiniteSets, TLC

\* ------------------------------------------------------------------ bounds

\* Number of free characters appended to a model id given to from_id.
MaxIdPad == 1
\* Number of lines (read outcomes) of a response body.
MaxBody == 3
\* Number of free characters before, and after, a role name given to try_from.
MaxRolePad == 1

\* ----------------------------------------------------------------- strings

starts_with(s, p) == Len(s) >= Len(p) /\ SubSeq(s, 1, Len(p)) = p

S_claude_3 == <<"c", "l", "a", "u", "d", "e", "-", "3">>
S_sonnet == <<"-", "s", "o", "n", "n", "e", "t">>
S_opus == <<"-", "o", "p", "u", "s">>
S_haiku == <<"-", "h", "a", "i", "k", "u">>
S_claude_3_5_sonnet == S_claude_3 \o <<"-", "5">> \o S_sonnet
S_claude_3_opus == S_claude_3 \o S_opus
S_claude_3_sonnet == S_claude_3 \o S_sonnet
S_claude_3_haiku == S_claude_3 \o S_haiku
S_2024 == <<"-", "2", "0", "2", "4">>
S_20240620 == S_2024 \o <<"0", "6", "2", "0">>
S_20240229 == S_2024 \o <<"0", "2", "2", "9">>
S_20240307 == S_2024 \o <<"0", "3", "0", "7">>

\* ------------------------------------------------------------------- Model

\* Option<T> is a set with at most one element.
None == {}
Some(x) == {x}

KnownVariants == {"Claude3_5Sonnet", "Claude3Opus", "Claude3Sonnet", "Claude3Haiku"}

Known(v) == [variant |-> v, name |-> <<>>, max_tokens |-> None]
Custom(name, max_tokens) == [variant |-> "Custom", name |-> name, max_tokens |-> max_tokens]

Ok(v) == [ok |-> TRUE, val |-> v]

\* An unknown id answered with the default model.
from_id_defaults_unknown(id) ==
    IF starts_with(id, S_claude_3_5_sonnet) THEN Ok(Known("Claude3_5Sonnet"))
    ELSE IF starts_with(id, S_claude_3_opus) THEN Ok(Known("Claude3Opus"))
    ELSE IF starts_with(id, S_claude_3_sonnet) THEN Ok(Known("Claude3Sonnet"))
    ELSE IF starts_with(id, S_claude_3_haiku) THEN Ok(Known("Claude3Haiku"))
    ELSE Ok(Known("Claude3_5Sonnet"))

\* A generic "claude-3" test put before the tests of the families.
from_id_generic_claude_3(id) ==
    IF starts_with(id, S_claude_3) THEN Ok(Known("Claude3Opus"))
    ELSE IF starts_with(id, S_claude_3_5_sonnet) THEN Ok(Known("Claude3_5Sonnet"))
    ELSE IF starts_with(id, S_claude_3_opus) THEN Ok(Known("Claude3Opus"))
    ELSE IF starts_with(id, S_claude_3_sonnet) THEN Ok(Known("Claude3Sonnet"))
    ELSE IF starts_with(id, S_claude_3_haiku) THEN Ok(Known("Claude3Haiku"))
    ELSE Ok(Custom(id, None))

from_id(id) ==
    IF starts_with(id, S_claude_3_5_sonnet) THEN Ok(Known("Claude3_5Sonnet"))
    ELSE IF starts_with(id, S_claude_3_opus) THEN Ok(Known("Claude3Opus"))
    ELSE IF starts_with(id, S_claude_3_sonnet) THEN Ok(Known("Claude3Sonnet"))
    ELSE IF starts_with(id, S_claude_3_haiku) THEN Ok(Known("Claude3Haiku"))
    ELSE Ok(Custom(id, None))

\* A known variant left without its identifier.
id_unnamed_haiku(m) ==
    CASE m.variant = "Claude3_5Sonnet" -> S_claude_3_5_sonnet \o S_20240620
      [] m.variant = "Claude3Opus" -> S_claude_3_opus \o S_20240229
      [] m.variant = "Claude3Sonnet" -> S_claude_3_sonnet \o S_20240229
      [] m.variant = "Claude3Haiku" -> <<>>
      [] m.variant = "Custom" -> m.name

id(m) ==
    CASE m.variant = "Claude3_5Sonnet" -> S_claude_3_5_sonnet \o S_20240620
      [] m.variant = "Claude3Opus" -> S_claude_3_opus \o S_20240229
      [] m.variant = "Claude3Sonnet" -> S_claude_3_sonnet \o S_20240229
      [] m.variant = "Claude3Haiku" -> S_claude_3_opus \o S_20240307
      [] m.variant = "Custom" -> m.name

\* The override of a Custom model ignored.
max_token_count_ignores_override(m) == 200000

max_token_count(m) ==
    IF m.variant \in KnownVariants THEN 200000
    ELSE IF m.max_tokens = None THEN 200000
    ELSE CHOOSE n \in m.max_tokens : TRUE

\* The wire names the serde attributes of the enum declare for each variant.
serde_rename(v) ==
    CASE v = "Claude3_5Sonnet" -> S_claude_3_5_sonnet \o S_20240620
      [] v = "Claude3Opus" -> S_claude_3_opus \o S_20240229
      [] v = "Claude3Sonnet" -> S_claude_3_sonnet \o S_20240229
      [] v = "Claude3Haiku" -> S_claude_3_haiku \o S_20240307

\* Inputs of the catalog: family names, near misses and unrelated names, each
\* with a date, another suffix or nothing, and up to MaxIdPad free characters.
IdBases ==
    { S_claude_3_5_sonnet, S_claude_3_opus, S_claude_3_sonnet, S_claude_3_haiku,
      S_claude_3, S_claude_3 \o <<"-", "5">>, <<"g", "p", "t", "-", "4">>, <<>>,
      <<"C", "l", "a", "u", "d", "e", "-", "3">> \o S_opus }
IdSuffixes == { <<>>, S_20240620, S_20240229, S_20240307, <<"-", "l", "a", "t", "e", "s", "t">> }
PadChars == {"x", "-"}
Pads == UNION { [1..n -> PadChars] : n \in 0..MaxIdPad }
IdInputs == { b \o s \o p : b \in IdBases, s \in IdSuffixes, p \in Pads }

TokenOverrides == {None, Some(0), Some(1), Some(4096)}
ModelInputs ==
    { Known(v) : v \in KnownVariants }
    \cup { Custom(n, t) : n \in {<<>>, <<"m">>, S_claude_3_opus, S_claude_3_haiku \o S_20240307},
                          t \in TokenOverrides }

\* -------------------------------------------------------------------- Role

Roles == {"User", "Assistant"}

S_user == <<"u", "s", "e", "r">>
S_assistant == <<"a", "s", "s", "i", "s", "t", "a", "n", "t">>

InvalidRole == [ok |-> FALSE, val |-> ""]

\* try_from accepting every string that begins with a role name.
try_from_by_prefix(value) ==
    IF starts_with(value, S_user) THEN Ok("User")
    ELSE IF starts_with(value, S_assistant) THEN Ok("Assistant")
    ELSE InvalidRole

\* impl TryFrom<String> for Role
try_from(value) ==
    IF value = S_user THEN Ok("User")
    ELSE IF value = S_assistant THEN Ok("Assistant")
    ELSE InvalidRole

\* impl From<Role> for String
String_from(val) ==
    CASE val = "User" -> S_user
      [] val = "Assistant" -> S_assistant

\* Strings given to try_from: role names, near misses and other names, with up
\* to MaxRolePad free characters on each side.
RoleBases ==
    { S_user, S_assistant, <<"U", "s", "e", "r">>, <<"A">> \o Tail(S_assistant),
      <<"s", "y", "s", "t", "e", "m">>, <<"u", "s", "e">>, <<>> }
RolePadChars == {" ", "s"}
RolePads == UNION { [1..n -> RolePadChars] : n \in 0..MaxRolePad }
RoleInputs == { a \o b \o c : a \in RolePads, b \in RoleBases, c \in RolePads }

\* ------------------------------------------------------- response bodies

\* A symbol of a body text: a character, or a whole JSON object (its text taken
\* as one symbol).  An object is its `type` member, if any, and the names of
\* its other members that are present with a value of the expected shape.
Ch(c) == [ch |-> c, obj |-> <<>>]
Obj(type, fields) == [ch |-> "", obj |-> <<[type |-> type, fields |-> fields]>>]
Text(chars) == [i \in 1..Len(chars) |-> Ch(chars[i])]

\* What the server writes before the frame of an event line.
SseData == Text(<<"d", "a", "t", "a", ":", " ">>)

\* The prefix with its space forgotten.
DataPrefixNoSpace == Text(<<"d", "a", "t", "a", ":">>)

\* The prefix the decoder strips.
DataPrefix == Text(<<"d", "a", "t", "a", ":", " ">>)

\* The prefix looked for after the spaces that begin the line.
strip_prefix_after_spaces(line, prefix) ==
    LET from == { i \in 1..Len(line) : line[i] # Ch(" ") }
        rest == IF from = {} THEN <<>>
                ELSE SubSeq(line, CHOOSE i \in from : \A j \in from : i <= j, Len(line))
    IN  IF starts_with(rest, prefix)
        THEN Some(SubSeq(rest, Len(prefix) + 1, Len(rest)))
        ELSE None

\* str::strip_prefix: the rest of the line after the prefix, or nothing.
strip_prefix(line, prefix) ==
    IF starts_with(line, prefix)
    THEN Some(SubSeq(line, Len(prefix) + 1, Len(line)))
    ELSE None

\* #[serde(tag = "type", rename_all = "snake_case")] enum ResponseEvent:
\* the tag of each variant and the members it requires.
ResponseEventVariants ==
    { [tag |-> "message_start", variant |-> "MessageStart", required |-> {"message"}],
      [tag |-> "content_block_start", variant |-> "ContentBlockStart",
       required |-> {"index", "content_block"}],
      [tag |-> "ping", variant |-> "Ping", required |-> {}],
      [tag |-> "content_block_delta", variant |-> "ContentBlockDelta",
       required |-> {"index", "delta"}],
      [tag |-> "content_block_stop", variant |-> "ContentBlockStop", required |-> {"index"}],
      [tag |-> "message_delta", variant |-> "MessageDelta", required |-> {"delta", "usage"}],
      [tag |-> "message_stop", variant |-> "MessageStop", required |-> {}] }

Event(variant) == [kind |-> "Event", variant |-> variant]
DecodeError == [kind |-> "DecodeError", variant |-> ""]
ReadError == [kind |-> "ReadError", variant |-> ""]

\* The members of a variant taken as optional.
deserialize_event_lenient(o) ==
    IF o.type = None THEN DecodeError
    ELSE LET t == CHOOSE x \in o.type : TRUE
             vs == { v \in ResponseEventVariants : v.tag = t }
         IN  IF vs = {} THEN DecodeError
             ELSE Event((CHOOSE x \in vs : TRUE).variant)

\* Deserialize for ResponseEvent, on a JSON object.
deserialize_event(o) ==
    IF o.type = None THEN DecodeError
    ELSE LET t == CHOOSE x \in o.type : TRUE
             vs == { v \in ResponseEventVariants : v.tag = t }
         IN  IF vs = {} THEN DecodeError
             ELSE LET v == CHOOSE x \in vs : TRUE
                  IN  IF v.required \subseteq o.fields THEN Event(v.variant)
                      ELSE DecodeError

IsWhitespace(sym) == sym.obj = <<>> /\ sym.ch \in {" ", "\n"}

Trim(s) ==
    LET keep == { i \in 1..Len(s) : ~IsWhitespace(s[i]) }
    IN  IF keep = {} THEN <<>>
        ELSE SubSeq(s, CHOOSE i \in keep : \A j \in keep : i <= j,
                       CHOOSE i \in keep : \A j \in keep : j <= i)

\* serde_json::from_str::<ResponseEvent>: one JSON object, with nothing but
\* whitespace around it, that deserializes as an event.
from_str(s) ==
    LET t == Trim(s)
    IN  IF Len(t) = 1 /\ t[1].obj # <<>> THEN deserialize_event(t[1].obj[1])
        ELSE DecodeError

\* What one read of a line from the body gives: a line of text, a line that is
\* not UTF-8, or a transport error.
Line(text) == [io |-> "line", text |-> text]
BadUtf8Line == [io |-> "bad_utf8", text |-> <<>>]
ReadFailure == [io |-> "error", text |-> <<>>]

Frame(type, fields) == SseData \o <<Obj(Some(type), fields)>>

BodyItems ==
    { Line(Frame("message_start", {"message"})),
      Line(Frame("content_block_delta", {"index", "delta"})),
      Line(Frame("message_stop", {})),
      Line(Frame("ping", {})),
      Line(Frame("error", {"error"})),
      Line(Frame("content_block_stop", {})),
      Line(<<>>),
      Line(<<Obj(Some("ping"), {})>>),
      Line(<<Obj(None, {"error"})>>),
      Line(Text(<<"d", "a", "t", "a", ":">>) \o <<Obj(Some("ping"), {})>>),
      Line(SseData),
      Line(SseData \o Text(<<"x">>)),
      Line(Text(<<" ">>) \o Frame("ping", {})),
      Line(Text(<<"D", "a", "t", "a", ":", " ">>) \o <<Obj(Some("ping"), {})>>),
      BadUtf8Line,
      ReadFailure }

Bodies == UNION { [1..n -> BodyItems] : n \in 0..MaxBody }

StatusCodes == {200, 429, 500}

\* http::StatusCode::is_success
is_success(code) == code \in 200..299

\* The bytes read_to_end collects: every line with its line feed.
RECURSIVE RawBody(_)
RawBody(b) ==
    IF b = <<>> THEN <<>>
    ELSE b[1].text \o <<Ch("\n")>> \o RawBody(Tail(b))

\* The closure with parse failures dropped instead of yielded.
filter_map_line_drops_errors(item) ==
    IF item.io = "line"
    THEN LET rest == strip_prefix(item.text, DataPrefix)
         IN  IF rest = None THEN None
             ELSE IF from_str(CHOOSE r \in rest : TRUE).kind = "Event"
                  THEN Some(from_str(CHOOSE r \in rest : TRUE))
                  ELSE None
    ELSE Some(ReadError)

\* The closure with the errors of reads dropped instead of yielded.
filter_map_line_drops_read_errors(item) ==
    IF item.io = "line"
    THEN LET rest == strip_prefix(item.text, DataPrefix)
         IN  IF rest = None THEN None
             ELSE Some(from_str(CHOOSE r \in rest : TRUE))
    ELSE None

\* The element the filter_map closure makes of one item of reader.lines():
\* nothing for a line without the prefix.
filter_map_line(item) ==
    IF item.io = "line"
    THEN LET rest == strip_prefix(item.text, DataPrefix)
         IN  IF rest = None THEN None
             ELSE Some(from_str(CHOOSE r \in rest : TRUE))
    ELSE Some(ReadError)

\* ------------------------------------------------------ stream_completion

Error(msg, status, body) == [msg |-> msg, status |-> status, body |-> body]

NoResult == [kind |-> "pending", err |-> Error("", None, <<>>)]
Stream == [kind |-> "stream", err |-> Error("", None, <<>>)]
Err(e) == [kind |-> "err", err |-> e]

VARIABLES mStep, mIn, mVal, mWire, mVal2, mWire2, mTokens

mvars == <<mStep, mIn, mVal, mWire, mVal2, mWire2, mTokens>>

VARIABLES rStep, rRole, rStr, rBack

rvars == <<rStep, rRole, rStr, rBack>>

VARIABLES dStep, dObj, dOut

dvars == <<dStep, dObj, dOut>>

VARIABLES pc, sends, conn, status, body, result, pos, pulling, ended, out, outAt

svars == <<pc, sends, conn, status, body, result, pos, pulling, ended, out, outAt>>
vars == <<svars, mvars, rvars, dvars>>

NoModel == [variant |-> "none", name |-> <<>>, max_tokens |-> None]

InitStream ==
    /\ pc = "start"
    /\ sends = 0
    /\ conn = "none"
    /\ status = None
    /\ body = <<>>
    /\ result = NoResult
    /\ pos = 0
    /\ pulling = FALSE
    /\ ended = FALSE
    /\ out = <<>>
    /\ outAt = <<>>

\* The request is serialized and built; either can fail, before anything is sent.
Build ==
    /\ pc = "start"
    /\ \/ pc' = "built" /\ UNCHANGED result
       \/ pc' = "failed" /\ result' = Err(Error("serialize", None, <<>>))
    /\ UNCHANGED <<sends, conn, status, body, pos, pulling, ended, out, outAt, mvars, rvars, dvars>>

\* A failed send answered with an empty stream instead of the error.
Send_failure_as_empty_stream ==
    /\ pc = "built"
    /\ sends' = sends + 1
    /\ \/ /\ pc' = "streaming"
          /\ result' = Stream
          /\ UNCHANGED <<conn, status, body>>
       \/ /\ \E code \in StatusCodes, b \in Bodies :
                /\ status' = Some(code)
                /\ body' = b
          /\ pc' = "responded"
          /\ conn' = "held"
          /\ UNCHANGED result
    /\ UNCHANGED <<pos, pulling, ended, out, outAt, mvars, rvars, dvars>>

\* A failed send tried once more.
Send_retries ==
    /\ pc = "built"
    /\ sends' = sends + 1
    /\ \/ /\ sends = 0
          /\ UNCHANGED <<pc, result, conn, status, body>>
       \/ /\ pc' = "failed"
          /\ result' = Err(Error("send", None, <<>>))
          /\ UNCHANGED <<conn, status, body>>
       \/ /\ \E code \in StatusCodes, b \in Bodies :
                /\ status' = Some(code)
                /\ body' = b
          /\ pc' = "responded"
          /\ conn' = "held"
          /\ UNCHANGED result
    /\ UNCHANGED <<pos, pulling, ended, out, outAt, mvars, rvars, dvars>>

\* client.send(request).await?
Send ==
    /\ pc = "built"
    /\ sends' = sends + 1
    /\ \/ /\ pc' = "failed"
          /\ result' = Err(Error("send", None, <<>>))
          /\ UNCHANGED <<conn, status, body>>
       \/ /\ \E code \in StatusCodes, b \in Bodies :
                /\ status' = Some(code)
                /\ body' = b
          /\ pc' = "responded"
          /\ conn' = "held"
          /\ UNCHANGED result
    /\ UNCHANGED <<pos, pulling, ended, out, outAt, mvars, rvars, dvars>>

TheStatus == CHOOSE c \in status : TRUE

\* The stream returned with the first line already read.
ReturnStream_eager ==
    /\ pc = "responded"
    /\ is_success(TheStatus)
    /\ pc' = "streaming"
    /\ result' = Stream
    /\ pos' = IF Len(body) > 0 THEN 1 ELSE 0
    /\ UNCHANGED <<sends, conn, status, body, pulling, ended, out, outAt, mvars, rvars, dvars>>

\* Success status: the body moves into the stream that is returned; no line
\* is read yet.
ReturnStream ==
    /\ pc = "responded"
    /\ is_success(TheStatus)
    /\ pc' = "streaming"
    /\ result' = Stream
    /\ UNCHANGED <<sends, conn, status, body, pos, pulling, ended, out, outAt, mvars, rvars, dvars>>

\* The status error without the status code.
error_branch_result_without_status(code, b) ==
    IF \E i \in 1..Len(b) : b[i].io = "error"
    THEN Error("io", None, <<>>)
    ELSE IF \E i \in 1..Len(b) : b[i].io = "bad_utf8"
    THEN Error("utf8", None, <<>>)
    ELSE IF from_str(RawBody(b)).kind = "Event"
    THEN Error("Unexpected success response while expecting an error: ", None, RawBody(b))
    ELSE Error("Failed to connect to API: ", None, RawBody(b))

\* Every error of the branch given the status code.
error_branch_result_always_status(code, b) ==
    IF \E i \in 1..Len(b) : b[i].io = "error"
    THEN Error("io", Some(code), <<>>)
    ELSE IF \E i \in 1..Len(b) : b[i].io = "bad_utf8"
    THEN Error("utf8", Some(code), <<>>)
    ELSE IF from_str(RawBody(b)).kind = "Event"
    THEN Error("Unexpected success response while expecting an error: ", Some(code), RawBody(b))
    ELSE Error("Failed to connect to API: ", Some(code), RawBody(b))

\* The branch without its test for a body that parses as an event.
error_branch_result_no_anomaly(code, b) ==
    IF \E i \in 1..Len(b) : b[i].io = "error"
    THEN Error("io", None, <<>>)
    ELSE IF \E i \in 1..Len(b) : b[i].io = "bad_utf8"
    THEN Error("utf8", None, <<>>)
    ELSE Error("Failed to connect to API: ", Some(code), RawBody(b))

\* The error the non-success branch returns.
error_branch_result(code, b) ==
    IF \E i \in 1..Len(b) : b[i].io = "error"
    THEN Error("io", None, <<>>)
    ELSE IF \E i \in 1..Len(b) : b[i].io = "bad_utf8"
    THEN Error("utf8", None, <<>>)
    ELSE IF from_str(RawBody(b)).kind = "Event"
    THEN Error("Unexpected success response while expecting an error: ", None, RawBody(b))
    ELSE Error("Failed to connect to API: ", Some(code), RawBody(b))

\* What becomes of the connection when the call returns from the non-success
\* branch: the response is a local of the call and is dropped with it.
conn_after_error_branch == "released"

\* Non-success status: the whole body is read, and the call ends in an error.
ErrorBranch ==
    /\ pc = "responded"
    /\ ~is_success(TheStatus)
    /\ pc' = "failed"
    /\ pos' = Len(body)
    /\ result' = Err(error_branch_result(TheStatus, body))
    /\ conn' = conn_after_error_branch
    /\ UNCHANGED <<sends, status, body, pulling, ended, out, outAt, mvars, rvars, dvars>>

\* The caller asks the stream for its next element.
Pull ==
    /\ pc = "streaming"
    /\ ~pulling
    /\ pulling' = TRUE
    /\ ended' = FALSE
    /\ UNCHANGED <<pc, sends, conn, status, body, result, pos, out, outAt, mvars, rvars, dvars>>

\* A line lost after each line read.
next_pos_skips(p) == IF p + 2 <= Len(body) THEN p + 2 ELSE p + 1

\* The position of the body after a line has been read.
next_pos(p) == p + 1

\* The stream ending itself once it has yielded a message_stop event.
ReadLine_stops_after_message_stop ==
    /\ pc = "streaming"
    /\ pulling
    /\ \/ /\ \/ pos = Len(body)
             \/ Len(out) > 0 /\ out[Len(out)] = Event("MessageStop")
          /\ pulling' = FALSE
          /\ ended' = TRUE
          /\ UNCHANGED <<pos, out, outAt>>
       \/ /\ pos < Len(body)
          /\ ~(Len(out) > 0 /\ out[Len(out)] = Event("MessageStop"))
          /\ pos' = next_pos(pos)
          /\ LET el == filter_map_line(body[pos + 1])
             IN  \/ /\ el = None
                    /\ UNCHANGED <<pulling, out, outAt>>
                 \/ /\ el # None
                    /\ out' = Append(out, CHOOSE e \in el : TRUE)
                    /\ outAt' = Append(outAt, pos + 1)
                    /\ pulling' = FALSE
          /\ UNCHANGED ended
    /\ UNCHANGED <<pc, sends, conn, status, body, result, mvars, rvars, dvars>>

\* One step of the pending pull: the next line is read and filtered; the pull
\* ends with an element, or with the end of the stream when the body is over.
ReadLine ==
    /\ pc = "streaming"
    /\ pulling
    /\ \/ /\ pos = Len(body)
          /\ pulling' = FALSE
          /\ ended' = TRUE
          /\ UNCHANGED <<pos, out, outAt>>
       \/ /\ pos < Len(body)
          /\ pos' = next_pos(pos)
          /\ LET el == filter_map_line(body[pos + 1])
             IN  \/ /\ el = None
                    /\ UNCHANGED <<pulling, out, outAt>>
                 \/ /\ el # None
                    /\ out' = Append(out, CHOOSE e \in el : TRUE)
                    /\ outAt' = Append(outAt, pos + 1)
                    /\ pulling' = FALSE
          /\ UNCHANGED ended
    /\ UNCHANGED <<pc, sends, conn, status, body, result, mvars, rvars, dvars>>

\* The body outliving the stream that owned it.
conn_leaked_on_drop == "held"

\* What becomes of the connection when the stream is dropped: the stream owns
\* the reader, which owns the body.
conn_after_drop == "released"

\* The caller drops the stream, at any point.
DropStream ==
    /\ pc = "streaming"
    /\ pc' = "dropped"
    /\ pulling' = FALSE
    /\ conn' = conn_after_drop
    /\ UNCHANGED <<sends, status, body, result, pos, ended, out, outAt, mvars, rvars, dvars>>

Init == InitStream /\ mStep = "idle" /\ mIn = None /\ mVal = NoModel
        /\ mWire = <<>> /\ mVal2 = NoModel /\ mWire2 = <<>> /\ mTokens = None
        /\ rStep = "idle" /\ rRole = "" /\ rStr = <<>> /\ rBack = None
        /\ dStep = "idle" /\ dObj = None /\ dOut = None

Next ==
    \/ Build
    \/ Send
    \/ ReturnStream
    \/ ErrorBranch
    \/ Pull
    \/ ReadLine
    \/ DropStream

Spec == Init /\ [][Next]_vars

\* ------------------------------------------------- the catalog's callers

\* A caller holds either an id string to look up, or a Model value; no
\* completion is under way.
InitModel ==
    /\ pc = "start"
    /\ sends = 0
    /\ conn = "none"
    /\ status = None
    /\ body = <<>>
    /\ result = NoResult
    /\ pos = 0
    /\ pulling = FALSE
    /\ ended = FALSE
    /\ out = <<>>
    /\ outAt = <<>>
    /\ rStep = "idle" /\ rRole = "" /\ rStr = <<>> /\ rBack = None
    /\ dStep = "idle" /\ dObj = None /\ dOut = None
    /\ mVal2 = NoModel
    /\ mWire = <<>>
    /\ mWire2 = <<>>
    /\ mTokens = None
    /\ \/ mStep = "new" /\ mIn \in { Some(i) : i \in IdInputs } /\ mVal = NoModel
       \/ mStep = "parsed" /\ mIn = None /\ mVal \in ModelInputs

CallFromId ==
    /\ mStep = "new"
    /\ mVal' = from_id(CHOOSE i \in mIn : TRUE).val
    /\ mStep' = "parsed"
    /\ UNCHANGED <<mIn, mWire, mVal2, mWire2, mTokens, svars, rvars, dvars>>

CallId ==
    /\ mStep = "parsed"
    /\ mWire' = id(mVal)
    /\ mStep' = "named"
    /\ UNCHANGED <<mIn, mVal, mVal2, mWire2, mTokens, svars, rvars, dvars>>

CallFromIdAgain ==
    /\ mStep = "named"
    /\ mVal2' = from_id(mWire).val
    /\ mStep' = "reparsed"
    /\ UNCHANGED <<mIn, mVal, mWire, mWire2, mTokens, svars, rvars, dvars>>

CallIdAgain ==
    /\ mStep = "reparsed"
    /\ mWire2' = id(mVal2)
    /\ mStep' = "renamed"
    /\ UNCHANGED <<mIn, mVal, mWire, mVal2, mTokens, svars, rvars, dvars>>

CallMaxTokenCount ==
    /\ mStep = "parsed"
    /\ mTokens = None
    /\ mTokens' = Some(max_token_count(mVal))
    /\ UNCHANGED <<mStep, mIn, mVal, mWire, mVal2, mWire2, svars, rvars, dvars>>

NextModel ==
    \/ CallFromId
    \/ CallMaxTokenCount
    \/ CallId
    \/ CallFromIdAgain
    \/ CallIdAgain

SpecModel == InitModel /\ [][NextModel]_vars

\* ------------------------------------------------------ the role's callers

\* A caller holds either a Role, or a string to convert.
InitRole ==
    /\ InitStream
    /\ mStep = "idle" /\ mIn = None /\ mVal = NoModel /\ mWire = <<>>
    /\ mVal2 = NoModel /\ mWire2 = <<>> /\ mTokens = None
    /\ dStep = "idle" /\ dObj = None /\ dOut = None
    /\ rBack = None
    /\ \/ rStep = "role" /\ rRole \in Roles /\ rStr = <<>>
       \/ rStep = "string" /\ rRole = "" /\ rStr \in RoleInputs

CallStringFrom ==
    /\ rStep = "role"
    /\ rStr' = String_from(rRole)
    /\ rStep' = "string"
    /\ UNCHANGED <<rRole, rBack, svars, mvars, dvars>>

CallTryFrom ==
    /\ rStep = "string"
    /\ rBack' = Some(try_from(rStr))
    /\ rStep' = "done"
    /\ UNCHANGED <<rRole, rStr, svars, mvars, dvars>>

NextRole ==
    \/ CallStringFrom
    \/ CallTryFrom

SpecRole == InitRole /\ [][NextRole]_vars

\* --------------------------------------------------- decoding of one frame

\* The JSON objects given to the decoder: every tag, some other `type` values
\* or none, with any of the members the variants name.
FrameTypes ==
    { None } \cup
    { Some(t) : t \in { "message_start", "content_block_start", "ping",
                         "content_block_delta", "content_block_stop", "message_delta",
                         "message_stop", "error", "Ping", "MessageStop" } }
FrameMembers == {"message", "index", "content_block", "delta", "usage"}
FrameInputs == { [type |-> t, fields |-> f] : t \in FrameTypes, f \in SUBSET FrameMembers }

InitDecode ==
    /\ InitStream
    /\ mStep = "idle" /\ mIn = None /\ mVal = NoModel /\ mWire = <<>>
    /\ mVal2 = NoModel /\ mWire2 = <<>> /\ mTokens = None
    /\ rStep = "idle" /\ rRole = "" /\ rStr = <<>> /\ rBack = None
    /\ dStep = "frame"
    /\ dObj \in { Some(o) : o \in FrameInputs }
    /\ dOut = None

\* serde_json::from_str on the text of the frame.
Decode ==
    /\ dStep = "frame"
    /\ dOut' = Some(from_str(<<[ch |-> "", obj |-> <<CHOOSE o \in dObj : TRUE>>]>>))
    /\ dStep' = "decoded"
    /\ UNCHANGED <<dObj, svars, mvars, rvars>>

SpecDecode == InitDecode /\ [][Decode]_vars

\* ------------------------------------------------------------- properties

\* A line the server wrote as an event line: text that begins with "data: ".
Significant(item) ==
    item.io = "line" /\ starts_with(item.text, Text(<<"d", "a", "t", "a", ":", " ">>))

\* A line read as text that does not begin with "data: ".
Insignificant(item) == item.io = "line" /\ ~Significant(item)

\* The frame of an event line: what follows its prefix.
Payload(item) == SubSeq(item.text, 7, Len(item.text))

Streamed == pc \in {"streaming", "dropped"}

NonSuccess == status # None /\ TheStatus \notin 200..299

\* The whole body arrived and is text.
BodyIsText == \A i \in 1..Len(body) : body[i].io = "line"

\* C1: for every known variant m, from_id(m.id()) gives a model whose id() is
\* m.id() again.
C1_KnownIdRoundTrips ==
    (mStep = "renamed" /\ mVal.variant \in KnownVariants) => mWire2 = mWire

\* C2: a line that does not begin with "data: " never gives an element of the
\* sequence, event or error; a success body of such lines only gives a stream
\* with no element.
C2_OtherLinesSkipped ==
    Streamed =>
        /\ \A k \in 1..Len(out) : ~Insignificant(body[outAt[k]])
        /\ (\A i \in 1..Len(body) : Insignificant(body[i]))
               => (result = Stream /\ out = <<>>)

\* C2: a blank line between two event lines was read, and two elements came out.
C2_Witness ==
    /\ pc = "streaming"
    /\ ended
    /\ Len(body) = 3
    /\ Significant(body[1])
    /\ body[2] = Line(<<>>)
    /\ Significant(body[3])
    /\ Len(out) = 2

\* C3: an event line whose frame does not parse gives exactly one error element
\* at its place, and the sequence goes on: it ends only when the body is over,
\* and every later event line read has its element.
C3_BadFrameIsOneError ==
    Streamed =>
        /\ ended => pos = Len(body)
        /\ \A i \in 1..pos :
              (Significant(body[i]) /\ from_str(Payload(body[i])).kind # "Event") =>
                  /\ Cardinality({ k \in 1..Len(out) : outAt[k] = i }) = 1
                  /\ \A k \in 1..Len(out) : outAt[k] = i => out[k] = DecodeError
                  /\ \A j \in (i + 1)..pos :
                        Significant(body[j]) =>
                            \E k \in 1..Len(out) :
                                outAt[k] = j /\ out[k] = from_str(Payload(body[j]))

\* C3: a frame of unknown type was read, and the event line after it came out
\* as an event.
C3_Witness ==
    /\ pc = "streaming"
    /\ Len(out) = 2
    /\ body[outAt[1]] = Line(Frame("error", {"error"}))
    /\ out[1] = DecodeError
    /\ out[2] = Event("Ping")

\* C4: the sequence has exactly one element for each event line read, in the
\* order of the lines; every other element is the error of a failed read.
C4_OneElementPerLineInOrder ==
    Streamed =>
        LET read == { i \in 1..pos : Significant(body[i]) }
        IN  /\ \A i \in read : Cardinality({ k \in 1..Len(out) : outAt[k] = i }) = 1
            /\ \A k \in 1..Len(out) :
                  IF outAt[k] \in read
                  THEN out[k] = from_str(Payload(body[outAt[k]]))
                  ELSE body[outAt[k]].io # "line" /\ out[k] = ReadError
            /\ \A k \in 1..Len(out), l \in 1..Len(out) : k < l => outAt[k] < outAt[l]
            /\ (\A i \in 1..pos : body[i].io = "line") => Len(out) = Cardinality(read)

\* C4: message_start, content_block_delta, message_stop came out as three
\* events in that order.
C4_Witness ==
    /\ pc = "streaming"
    /\ ended
    /\ body = << Line(Frame("message_start", {"message"})),
                 Line(Frame("content_block_delta", {"index", "delta"})),
                 Line(Frame("message_stop", {})) >>
    /\ out = << Event("MessageStart"), Event("ContentBlockDelta"), Event("MessageStop") >>

\* C5: with a non-success status there is never a stream nor an element: the
\* call ends in one error, which holds the status code and the raw body when the
\* body is text that does not parse as an event.
C5_NonSuccessIsOneError ==
    NonSuccess =>
        /\ result # Stream
        /\ out = <<>>
        /\ pc \in {"responded", "failed"}
        /\ pc = "failed" =>
              /\ result.kind = "err"
              /\ (BodyIsText /\ from_str(RawBody(body)).kind # "Event") =>
                    /\ result.err.status = Some(TheStatus)
                    /\ result.err.body = RawBody(body)

\* C5: status 429 with a JSON error object as body ended in the status error.
C5_Witness ==
    /\ pc = "failed"
    /\ status = Some(429)
    /\ body = << Line(<<Obj(None, {"error"})>>) >>
    /\ result = Err(Error("Failed to connect to API: ", Some(429), RawBody(body)))

\* C6, as stated: every error of the non-success branch holds the status code.
C6_Original ==
    (NonSuccess /\ pc = "failed") => result.err.status = Some(TheStatus)

\* C6, amended: the error of the non-success branch holds the status code
\* exactly when the body was read whole, is UTF-8 and does not parse as an event;
\* the errors of the three other outcomes hold no status code.
C6_StatusOnlyOnStatusError ==
    (NonSuccess /\ pc = "failed") =>
        IF BodyIsText /\ from_str(RawBody(body)).kind # "Event"
        THEN result.err.status = Some(TheStatus)
        ELSE result.err.status = None

\* C6: a non-success call ended in an error without the status code.
C6_Witness ==
    /\ NonSuccess
    /\ pc = "failed"
    /\ \E i \in 1..Len(body) : body[i].io = "error"
    /\ result.err.status = None

\* C7, as stated (on a body whose every line is read as text): nothing follows
\* a message_stop event in the sequence, and the sequence ends when the body is
\* over.
C7_Original ==
    (Streamed /\ BodyIsText) =>
        /\ \A k \in 1..Len(out) : out[k] = Event("MessageStop") => k = Len(out)
        /\ ended => pos = Len(body)

\* C7, amended: the sequence ends only when the body is over; a message_stop
\* event does not end it, and the event lines read after it have their elements.
C7_EndsOnlyWithBody ==
    Streamed =>
        /\ ended => pos = Len(body)
        /\ (pc = "streaming" /\ ~pulling /\ ~ended) =>
              \/ pos = 0 /\ out = <<>>
              \/ Len(out) > 0 /\ outAt[Len(out)] = pos
        /\ \A k \in 1..Len(out) :
              out[k] = Event("MessageStop") =>
                  \A i \in (outAt[k] + 1)..pos :
                      Significant(body[i]) => \E l \in (k + 1)..Len(out) : outAt[l] = i

\* C7: an event came out after a message_stop event, and then the body ended.
C7_Witness ==
    /\ pc = "streaming"
    /\ ended
    /\ Len(out) = 2
    /\ out[1] = Event("MessageStop")
    /\ out[2] = Event("Ping")

\* C8: a non-success status with a body that parses as an event ends in an
\* error that is not the status error, holds the raw body, and no stream.
C8_AnomalyIsItsOwnError ==
    (NonSuccess /\ pc = "failed" /\ BodyIsText /\ from_str(RawBody(body)).kind = "Event") =>
        /\ result.kind = "err"
        /\ result.err.msg = "Unexpected success response while expecting an error: "
        /\ result.err.body = RawBody(body)
        /\ result.err # Error("Failed to connect to API: ", Some(TheStatus), RawBody(body))
        /\ out = <<>>

\* C8: status 500 with a ping event as body ended in the anomaly error.
C8_Witness ==
    /\ pc = "failed"
    /\ status = Some(500)
    /\ body = << Line(<<Obj(Some("ping"), {})>>) >>
    /\ result.err.msg = "Unexpected success response while expecting an error: "

C10_LazySinglePass ==
    [][ /\ (pc = "responded" /\ pc' = "streaming") => (pos = 0 /\ pos' = 0 /\ out' = <<>>)
        /\ (pc = "streaming" /\ pos' # pos) => (pulling /\ pos' = pos + 1)
        /\ (pc = "streaming" /\ out' # out) =>
              /\ pulling
              /\ pos' = pos + 1
              /\ Len(out') = Len(out) + 1
              /\ outAt'[Len(out')] = pos'
      ]_vars

\* C10: between two pulls, some lines read and the rest of the body unread.
C10_Witness ==
    /\ pc = "streaming"
    /\ ~pulling
    /\ out # <<>>
    /\ 0 < pos
    /\ pos < Len(body)

\* C11: when the send fails (a request was sent and no response came), the
\* call has ended in an error: no stream, no element, nothing read of a body.
C11_SendFailureIsImmediateError ==
    (sends > 0 /\ status = None) =>
        /\ pc = "failed"
        /\ result.kind = "err"
        /\ out = <<>>
        /\ pos = 0
        /\ body = <<>>
        /\ ~pulling
        /\ conn = "none"

\* C11: a call that ended in the error of its send.
C11_Witness ==
    /\ pc = "failed"
    /\ sends = 1
    /\ status = None
    /\ result = Err(Error("send", None, <<>>))

\* C12: a call sends at most one request, whatever comes of it, and none when
\* the request could not be serialized.
C12_AtMostOneRequest ==
    /\ sends <= 1
    /\ pc = "start" => sends = 0
    /\ (result.kind = "err" /\ result.err.msg = "serialize") => sends = 0

\* C12: one request sent, and a stream read to its end over a failed read and
\* a frame that did not parse.
C12_Witness ==
    /\ sends = 1
    /\ pc = "streaming"
    /\ ended
    /\ \E k \in 1..Len(out) : out[k] = ReadError
    /\ \E k \in 1..Len(out) : out[k] = DecodeError

\* The id given to from_id, when the caller began with one.
TheId == CHOOSE i \in mIn : TRUE

Families == {"Claude3_5Sonnet", "Claude3Opus", "Claude3Sonnet", "Claude3Haiku"}

\* The prefix that names each family.
FamilyPrefix(f) ==
    CASE f = "Claude3_5Sonnet" -> S_claude_3 \o <<"-", "5", "-", "s", "o", "n", "n", "e", "t">>
      [] f = "Claude3Opus" -> S_claude_3 \o <<"-", "o", "p", "u", "s">>
      [] f = "Claude3Sonnet" -> S_claude_3 \o <<"-", "s", "o", "n", "n", "e", "t">>
      [] f = "Claude3Haiku" -> S_claude_3 \o <<"-", "h", "a", "i", "k", "u">>

FamiliesOf(s) == { f \in Families : starts_with(s, FamilyPrefix(f)) }

Named == mStep \in {"named", "reparsed", "renamed"}

\* C13: from_id returns Ok for every string; for a string that begins with no
\* family prefix it returns Custom with that string as name and no max-token
\* override, and id() gives the string back.
C13_UnknownIdBecomesCustom ==
    (mIn # None /\ mStep # "new") =>
        /\ from_id(TheId).ok
        /\ FamiliesOf(TheId) = {} =>
              /\ mVal = Custom(TheId, None)
              /\ Named => mWire = TheId

\* C13: "gpt-4" looked up and named again.
C13_Witness ==
    /\ mStep = "named"
    /\ mIn = Some(<<"g", "p", "t", "-", "4">>)
    /\ mVal.variant = "Custom"
    /\ mWire = <<"g", "p", "t", "-", "4">>

\* C14, as stated: id() is never empty.
C14_Original ==
    Named => mWire # <<>>

\* C14, amended: id() is non-empty for every known variant, and for a Custom
\* model exactly when its name is non-empty; of a model that from_id made, it is
\* empty exactly when the string looked up was empty.
C14_IdEmptyOnlyForEmptyName ==
    Named =>
        /\ mWire = <<>> <=> (mVal.variant = "Custom" /\ mVal.name = <<>>)
        /\ mIn # None => (mWire = <<>> <=> TheId = <<>>)

\* C14: the empty string looked up, and id() of the result empty.
C14_Witness ==
    /\ mStep = "named"
    /\ mIn = Some(<<>>)
    /\ mVal = Custom(<<>>, None)
    /\ mWire = <<>>

\* C15, as stated: max_token_count() is positive: 200,000 for a known variant
\* and for a Custom model without override, the override otherwise.
C15_Original ==
    mTokens # None =>
        /\ \A n \in mTokens : n > 0
        /\ mTokens = IF mVal.variant = "Custom" /\ mVal.max_tokens # None
                     THEN mVal.max_tokens
                     ELSE Some(200000)

\* C15, amended: max_token_count() is 200,000 for a known variant and for a
\* Custom model without override, and the override itself otherwise: positive
\* unless the override is 0.
C15_TokenCountIsOverrideOrDefault ==
    mTokens # None =>
        /\ mTokens = IF mVal.variant = "Custom" /\ mVal.max_tokens # None
                     THEN mVal.max_tokens
                     ELSE Some(200000)
        /\ (\A n \in mTokens : n > 0) <=> mVal.max_tokens # Some(0)

\* C15: a Custom model with an override of 0, and its count 0.
C15_Witness ==
    /\ mVal.variant = "Custom"
    /\ mVal.max_tokens = Some(0)
    /\ mTokens = Some(0)

\* C19: no family prefix begins with another, so a string begins with at most
\* one of them; an id that begins with a family prefix gets that family's
\* variant, whatever follows the prefix.
C19_FamilyPrefixDecides ==
    /\ \A f \in Families, g \in Families :
          f # g => ~starts_with(FamilyPrefix(f), FamilyPrefix(g))
    /\ (mIn # None /\ mStep # "new") =>
          /\ Cardinality(FamiliesOf(TheId)) <= 1
          /\ \A f \in FamiliesOf(TheId) : mVal = Known(f)

\* C19: an id of the 3.5 sonnet family with a suffix of its own, looked up.
C19_Witness ==
    /\ mStep = "parsed"
    /\ mIn = Some(FamilyPrefix("Claude3_5Sonnet") \o <<"-", "l", "a", "t", "e", "s", "t", "x">>)
    /\ mVal = Known("Claude3_5Sonnet")

\* C16: a Role turned into its string and back is the same Role; try_from
\* accepts "user" and "assistant" and no other string.
C16_RoleRoundTrips ==
    rStep = "done" =>
        /\ rRole # "" => rBack = Some([ok |-> TRUE, val |-> rRole])
        /\ rStr = <<"u", "s", "e", "r">> => rBack = Some([ok |-> TRUE, val |-> "User"])
        /\ rStr = <<"a", "s", "s", "i", "s", "t", "a", "n", "t">>
               => rBack = Some([ok |-> TRUE, val |-> "Assistant"])
        /\ rStr \notin { <<"u", "s", "e", "r">>, <<"a", "s", "s", "i", "s", "t", "a", "n", "t">> }
               => \A r \in rBack : ~r.ok

\* C16: Assistant turned into "assistant" and back.
C16_Witness ==
    /\ rStep = "done"
    /\ rRole = "Assistant"
    /\ rStr = <<"a", "s", "s", "i", "s", "t", "a", "n", "t">>
    /\ rBack = Some([ok |-> TRUE, val |-> "Assistant"])

\* The seven `type` values, the variant of each and the members it requires.
WireEvents ==
    { <<"message_start", "MessageStart", {"message"}>>,
      <<"content_block_start", "ContentBlockStart", {"index", "content_block"}>>,
      <<"ping", "Ping", {}>>,
      <<"content_block_delta", "ContentBlockDelta", {"index", "delta"}>>,
      <<"content_block_stop", "ContentBlockStop", {"index"}>>,
      <<"message_delta", "MessageDelta", {"delta", "usage"}>>,
      <<"message_stop", "MessageStop", {}>> }

\* C17: a frame decodes to a variant exactly when its `type` is the tag of that
\* variant and the members the variant requires are there; a frame with another
\* `type`, none, or a required member missing is a decode failure.
C17_DecodeByTagStrict ==
    dStep = "decoded" =>
        \A o \in dObj, r \in dOut :
            /\ \A w \in WireEvents :
                  r = [kind |-> "Event", variant |-> w[2]]
                      <=> (o.type = {w[1]} /\ w[3] \subseteq o.fields)
            /\ r = [kind |-> "DecodeError", variant |-> ""]
                   <=> ~\E w \in WireEvents : o.type = {w[1]} /\ w[3] \subseteq o.fields

\* C17: a content_block_stop frame without its index, decoded to a failure.
C17_Witness ==
    /\ dStep = "decoded"
    /\ dObj = Some([type |-> Some("content_block_stop"), fields |-> {"delta"}])
    /\ dOut = Some(DecodeError)

\* C18: a read of a line that fails gives exactly one error element at its
\* place; the call has returned its stream all the same, and the stream does not
\* end before the body does.
C18_ReadErrorIsOneElement ==
    Streamed =>
        /\ result = Stream
        /\ ended => pos = Len(body)
        /\ \A i \in 1..pos :
              body[i].io # "line" =>
                  /\ Cardinality({ k \in 1..Len(out) : outAt[k] = i }) = 1
                  /\ \A k \in 1..Len(out) : outAt[k] = i => out[k] = ReadError

\* C18: a transport error came out as an element, and an event after it.
C18_Witness ==
    /\ pc = "streaming"
    /\ Len(out) = 2
    /\ body[outAt[1]] = ReadFailure
    /\ out[1] = ReadError
    /\ out[2].kind = "Event"

\* C20: a line read as text has one element when it begins with "data: ",
\* exactly so spelled, and none otherwise, whatever follows; when nothing or no
\* JSON object follows the prefix, the element is a decode error.
C20_PrefixAloneDecides ==
    Streamed =>
        \A i \in 1..pos :
            body[i].io = "line" =>
                LET t == body[i].text
                    sig == /\ Len(t) >= 6
                           /\ SubSeq(t, 1, 6) = Text(<<"d", "a", "t", "a", ":", " ">>)
                    els == { k \in 1..Len(out) : outAt[k] = i }
                IN  /\ Cardinality(els) = IF sig THEN 1 ELSE 0
                    /\ (sig /\ \A j \in 7..Len(t) : t[j].obj = <<>>)
                           => \A k \in els : out[k] = DecodeError

\* C20: "data: " alone gave a decode error; "data:" without the space and
\* " data: " after a space, each before a valid frame, gave nothing.
C20_Witness ==
    /\ pc = "streaming"
    /\ ended
    /\ body = << Line(Text(<<"d", "a", "t", "a", ":", " ">>)),
                 Line(Text(<<"d", "a", "t", "a", ":">>) \o <<Obj(Some("ping"), {})>>),
                 Line(Text(<<" ", "d", "a", "t", "a", ":", " ">>) \o <<Obj(Some("ping"), {})>>) >>
    /\ out = << DecodeError >>

====
